---- MODULE Spec2Model ----
(***************************************************************************)
(* url-manager-rs, src/lib.rs: the Url value type with its shorten         *)
(* operation, and InMemoryLinkStore, a HashMap<u64, Link> behind one       *)
(* Arc<Mutex<..>>, with the four LinkStore operations.                     *)
(*                                                                         *)
(* Specifications:                                                         *)
(*   SeqSpec     one caller issuing store operations one after another     *)
(*   Spec        several callers issuing store operations concurrently     *)
(*   FairSpec    Spec with fair scheduling of the callers                  *)
(*   WriteSpec   every thread writes one id concurrently, then a get       *)
(*   CreateSpec  one create per thread, distinct ids, then gets            *)
(*   PoisonSpec  one caller, and another holder of the mutex that panics   *)
(*   UrlSpec     a Url value being built, shortened, compared, displayed   *)
(***************************************************************************)
EXTENDS Integers, Sequences, FiniteSets, TLC

\* ------------------------------------------------------------------ bounds
\* ids are 1..MaxId (u64 in the source; no arithmetic is done on them)
MaxId == 2
\* number of threads sharing the store
NumThreads == 2
\* number of operations the sequential caller issues
MaxOps == 3

Ids == 1..MaxId
Threads == 1..NumThreads
\* the thread that plays the sequential caller
Main == CHOOSE t \in Threads : \A u \in Threads : t <= u

\* ------------------------------------------------------------ Link records
\* The fields of a Link other than its id.  Two contents that differ in
\* every field, so that a replaced record is told from a merged one.
Payloads ==
    { [origin |-> "https://example.com/", target |-> "https://example.com/",
       created_at |-> 10, updated_at |-> 10],
      [origin |-> "https://www.example.com/path", target |-> "https://example.co/",
       created_at |-> 20, updated_at |-> 21] }

Link ==
    { [id |-> i, origin |-> p.origin, target |-> p.target,
       created_at |-> p.created_at, updated_at |-> p.updated_at] :
      i \in Ids, p \in Payloads }

\* ------------------------------------------------- Option / Result values
\* Option<T> is a sequence of length 0 or 1; Result<(), String> and the
\* outcome of a call are records [kind, val] with val a sequence.
None == << >>
Some(x) == << x >>

NoRet == [kind |-> "NoRet", val |-> << >>]
Ok == [kind |-> "Ok", val |-> << >>]
Err(msg) == [kind |-> "Err", val |-> << msg >>]
OptRet(o) == [kind |-> IF o = None THEN "None" ELSE "Some", val |-> o]
Panicked == [kind |-> "panic", val |-> << >>]

\* --------------------------------------------------------------- HashMap
\* A HashMap<u64, Link> is a function whose domain is the set of keys held.
EmptyMap == [k \in {} |-> 0]
contains_key(m, k) == k \in DOMAIN m
insert(m, k, v) == [x \in (DOMAIN m) \cup {k} |-> IF x = k THEN v ELSE m[x]]
remove(m, k) == [x \in (DOMAIN m) \ {k} |-> m[x]]
removed(m, k) == IF k \in DOMAIN m THEN Some(m[k]) ELSE None
map_get(m, k) == IF k \in DOMAIN m THEN Some(m[k]) ELSE None

\* ------------------------------------------------------------ operations
\* A call of one of the four LinkStore methods with its arguments; create
\* takes no id argument (id is 0 there), get and delete take no link.
\* a caller that holds no Link from a get
NoCopy == [ref |-> 0, val |-> << >>]

NoOp == [kind |-> "none", id |-> 0, link |-> << >>]
GetOp(i) == [kind |-> "get", id |-> i, link |-> << >>]
CreateOp(l) == [kind |-> "create", id |-> 0, link |-> << l >>]
UpdateOp(i, l) == [kind |-> "update", id |-> i, link |-> << l >>]
DeleteOp(i) == [kind |-> "delete", id |-> i, link |-> << >>]
\* the id a call addresses: link.id for create, the id argument otherwise
Addressed(o) == IF o.kind = "create" THEN o.link[1].id ELSE o.id

Ops ==
    {GetOp(i) : i \in Ids} \cup {CreateOp(l) : l \in Link}
      \cup {UpdateOp(i, l) : i \in Ids, l \in Link} \cup {DeleteOp(i) : i \in Ids}

VARIABLES
    links,      \* the HashMap inside the Mutex
    poisoned,   \* the Mutex's poison flag
    holder,     \* the thread owning the MutexGuard, 0 when the lock is free
    pc,         \* per thread: where it is in the method it is running
    op,         \* per thread: the method it runs (or ran last) and its arguments
    ret,        \* per thread: what that call returned
    pre,        \* the map when the sequential caller made its current call
    hist,       \* the calls completed earlier: [op, ret, pre], oldest first
    copy,       \* per thread: the Link its last get handed it, as the caller
                \* now has it, and the map key it shares storage with (0: none)
    wlast,      \* the thread that last took the lock for an insert, 0 if none
    url,        \* a Url value: [origin, shortcut]
    ures,       \* what the last operation on url returned
    ulast,      \* the last operation on url
    upre,       \* url before that operation
    uprev,      \* the operation before the last one and its result
    uarg,       \* the other operand of the last comparison
    ushortened  \* whether shorten has returned Ok on url since it was built

storeVars == << links, poisoned, holder, pc, op, ret, pre, hist, copy, wlast >>
urlVars == << url, ures, ulast, upre, uprev, uarg, ushortened >>
vars ==
    << links, poisoned, holder, pc, op, ret, pre, hist, copy, wlast,
       url, ures, ulast, upre, uprev, uarg, ushortened >>

\* ------------------------------------------------- InMemoryLinkStore::new
StoreInit ==
    /\ links = EmptyMap
    /\ poisoned = FALSE
    /\ holder = 0
    /\ pc = [t \in Threads |-> "idle"]
    /\ op = [t \in Threads |-> NoOp]
    /\ ret = [t \in Threads |-> NoRet]
    /\ pre = EmptyMap
    /\ hist = << >>
    /\ copy = [t \in Threads |-> NoCopy]
    /\ wlast = 0

\* ------------------------------------------- the bodies of the four methods
\* self.links.lock().unwrap(): lock() is Err(PoisonError) exactly when the
\* mutex is poisoned, and unwrap panics on Err.
lock_into_inner(p) == "guard"
lock_unwrap(p) == IF p THEN "panic" ELSE "guard"

\* #[derive(Clone)] on Link with DefaultInstant::clone: a new Link built from
\* a copy of each field.
link_clone(l) ==
    [id |-> l.id, origin |-> l.origin, target |-> l.target,
     created_at |-> l.created_at, updated_at |-> l.updated_at]

\* Option::cloned
cloned(o) == IF o = None THEN None ELSE Some(link_clone(o[1]))

\* get: .get(&id).cloned()
get(m, id) == cloned(map_get(m, id))

\* The Option<Link> that get returns is owned by the caller: cloned() built
\* it, so it shares storage with no entry of the map (0: no key).
returned_ref_shared(m, id) == IF contains_key(m, id) THEN id ELSE 0
returned_ref(m, id) == 0

\* create: .insert(link.id, link); Ok(())
create_forgets(m, link) == [links |-> m, ret |-> Ok]
create_or_insert(m, link) ==
    [links |-> IF contains_key(m, link.id) THEN m ELSE insert(m, link.id, link),
     ret |-> Ok]
create_replaces_map(m, link) == [links |-> insert(EmptyMap, link.id, link), ret |-> Ok]
create(m, link) == [links |-> insert(m, link.id, link), ret |-> Ok]

\* update, the condition of the if: .contains_key(&id)
update_check_upsert(m, id) == TRUE
update_check(m, id) == contains_key(m, id)

\* update: the owner of the lock once the condition is evaluated.  The guard
\* is a temporary of the if condition, dropped at its end (0: lock free).
guard_kept_in_branch(t) == t
guard_after_condition(t) == 0

\* update, the then branch: .insert(id, link); Ok(())
update_merge(m, id, link) ==
    [links |-> insert(m, id, IF contains_key(m, id)
                              THEN [link EXCEPT !.created_at = m[id].created_at]
                              ELSE link),
     ret |-> Ok]
update_keeps_existing(m, id, link) ==
    [links |-> IF contains_key(m, id) THEN m ELSE insert(m, id, link), ret |-> Ok]
update_insert(m, id, link) == [links |-> insert(m, id, link), ret |-> Ok]

\* update, the else branch
update_else == Err("Link not found")

\* delete: if .remove(&id).is_some() { Ok(()) } else { Err(..) }
delete_clears(m, id) ==
    [links |-> EmptyMap,
     ret |-> IF removed(m, id) # None THEN Ok ELSE Err("Link not found")]
delete_keeps(m, id) ==
    [links |-> m,
     ret |-> IF map_get(m, id) # None THEN Ok ELSE Err("Link not found")]
delete(m, id) ==
    [links |-> remove(m, id),
     ret |-> IF removed(m, id) # None THEN Ok ELSE Err("Link not found")]

\* ------------------------------------------------------- steps of a thread
\* pc: "idle" no call made yet, "lock" about to call lock() (for update: the
\* one in the condition), "held" owns the guard, "lock2"/"held2" the same for
\* update's second lock(), "done" the call returned, "panicked" it unwound.

\* links.lock().unwrap(): blocks while another thread owns the guard.  On a
\* poisoned mutex the guard comes back inside the Err, unwrap panics and the
\* guard is dropped by the unwinding.
locks_for_insert(at, o) ==
    \/ at = "lock" /\ o.kind = "create"
    \/ at = "lock2" /\ o.kind = "update"

Lock(t) ==
    /\ pc[t] \in {"lock", "lock2"}
    /\ holder = 0
    /\ IF lock_unwrap(poisoned) = "panic"
       THEN /\ pc' = [pc EXCEPT ![t] = "panicked"]
            /\ ret' = [ret EXCEPT ![t] = Panicked]
            /\ UNCHANGED holder
            /\ UNCHANGED wlast
       ELSE /\ pc' = [pc EXCEPT ![t] = IF pc[t] = "lock" THEN "held" ELSE "held2"]
            /\ holder' = t
            /\ wlast' = IF locks_for_insert(pc[t], op[t]) THEN t ELSE wlast
            /\ UNCHANGED ret
    /\ UNCHANGED << links, poisoned, op, pre, hist >>
    /\ UNCHANGED copy
    /\ UNCHANGED urlVars

\* get's expression: look up, clone, drop the guard, return.
Get(t) ==
    /\ pc[t] = "held" /\ holder = t /\ op[t].kind = "get"
    /\ ret' = [ret EXCEPT ![t] = OptRet(get(links, op[t].id))]
    /\ copy' = [copy EXCEPT ![t] = [ref |-> returned_ref(links, op[t].id),
                                    val |-> get(links, op[t].id)]]
    /\ pc' = [pc EXCEPT ![t] = "done"]
    /\ holder' = 0
    /\ UNCHANGED << links, poisoned, op, pre, hist >>
    /\ UNCHANGED wlast
    /\ UNCHANGED urlVars

\* create's first statement (the guard is a temporary of it) and its Ok(()).
Create(t) ==
    /\ pc[t] = "held" /\ holder = t /\ op[t].kind = "create"
    /\ LET r == create(links, op[t].link[1])
       IN  /\ links' = r.links
           /\ ret' = [ret EXCEPT ![t] = r.ret]
    /\ pc' = [pc EXCEPT ![t] = "done"]
    /\ holder' = 0
    /\ UNCHANGED << poisoned, op, pre, hist >>
    /\ UNCHANGED << copy, wlast >>
    /\ UNCHANGED urlVars

\* update's condition: the guard is a temporary of the condition and is
\* dropped before either branch runs.
UpdateCheck(t) ==
    /\ pc[t] = "held" /\ holder = t /\ op[t].kind = "update"
    /\ holder' = guard_after_condition(t)
    /\ IF update_check(links, op[t].id)
       THEN /\ pc' = [pc EXCEPT ![t] = "lock2"]
            /\ UNCHANGED ret
       ELSE /\ pc' = [pc EXCEPT ![t] = "done"]
            /\ ret' = [ret EXCEPT ![t] = update_else]
    /\ UNCHANGED << links, poisoned, op, pre, hist >>
    /\ UNCHANGED << copy, wlast >>
    /\ UNCHANGED urlVars

\* update's then branch, under the guard of its own lock().
UpdateInsert(t) ==
    /\ pc[t] = "held2" /\ holder = t /\ op[t].kind = "update"
    /\ LET r == update_insert(links, op[t].id, op[t].link[1])
       IN  /\ links' = r.links
           /\ ret' = [ret EXCEPT ![t] = r.ret]
    /\ pc' = [pc EXCEPT ![t] = "done"]
    /\ holder' = 0
    /\ UNCHANGED << poisoned, op, pre, hist >>
    /\ UNCHANGED << copy, wlast >>
    /\ UNCHANGED urlVars

\* delete's condition (remove under the guard) and the branch it selects.
Delete(t) ==
    /\ pc[t] = "held" /\ holder = t /\ op[t].kind = "delete"
    /\ LET r == delete(links, op[t].id)
       IN  /\ links' = r.links
           /\ ret' = [ret EXCEPT ![t] = r.ret]
    /\ pc' = [pc EXCEPT ![t] = "done"]
    /\ holder' = 0
    /\ UNCHANGED << poisoned, op, pre, hist >>
    /\ UNCHANGED << copy, wlast >>
    /\ UNCHANGED urlVars

\* ------------------------------------------------------------ the callers
\* A thread calls one of the four methods, for the first time or after its
\* previous call returned; in the place of a thread that unwound, a new
\* thread calls.
Call(t) ==
    /\ pc[t] \in {"idle", "done", "panicked"}
    /\ \E o \in Ops : op' = [op EXCEPT ![t] = o]
    /\ pc' = [pc EXCEPT ![t] = "lock"]
    /\ ret' = [ret EXCEPT ![t] = NoRet]
    /\ UNCHANGED << links, poisoned, holder, pre, hist >>
    /\ copy' = [copy EXCEPT ![t] = NoCopy]
    /\ UNCHANGED wlast
    /\ UNCHANGED urlVars

\* The calls the sequential caller has completed, oldest first.
Completed ==
    IF pc[Main] = "done"
    THEN Append(hist, [op |-> op[Main], ret |-> ret[Main], pre |-> pre])
    ELSE hist

\* The sequential caller makes its next call, at most MaxOps in all.
SeqCall ==
    /\ pc[Main] \in {"idle", "done"}
    /\ Len(Completed) < MaxOps
    /\ \E o \in Ops : op' = [op EXCEPT ![Main] = o]
    /\ pc' = [pc EXCEPT ![Main] = "lock"]
    /\ ret' = [ret EXCEPT ![Main] = NoRet]
    /\ hist' = Completed
    /\ pre' = links
    /\ UNCHANGED << links, poisoned, holder >>
    /\ copy' = [copy EXCEPT ![Main] = NoCopy]
    /\ UNCHANGED wlast
    /\ UNCHANGED urlVars

\* The sequential caller changes the Link a get returned to it (it is the
\* caller's own value: any field may be assigned).  Storage shared with a map
\* entry would be changed with it.
MutateCopy ==
    /\ pc[Main] = "done" /\ op[Main].kind = "get"
    /\ copy[Main].val # None
    /\ \E l \in Link \ {copy[Main].val[1]} :
          /\ copy' = [copy EXCEPT ![Main].val = Some(l)]
          /\ links' = IF contains_key(links, copy[Main].ref)
                       THEN [links EXCEPT ![copy[Main].ref] = l]
                       ELSE links
    /\ UNCHANGED << poisoned, holder, pc, op, ret, pre, hist, wlast >>
    /\ UNCHANGED urlVars

\* ------------------------------------------------------------------- Url
\* A parsed url::Url is its serialization with the host the parser found.
\* The url crate reports an empty host as no host, so host_str() is None or
\* a non-empty string.
Origins ==
    { [href |-> "https://www.example.com/path", host |-> Some("www.example.com")],
      [href |-> "https://www.example.com/", host |-> Some("www.example.com")],
      [href |-> "https://example.com/", host |-> Some("example.com")],
      [href |-> "https://www.example.co/", host |-> Some("www.example.co")],
      [href |-> "http://127.0.0.1:8080/", host |-> Some("127.0.0.1")],
      [href |-> "http://[::1]/", host |-> Some("[::1]")],
      [href |-> "data:text/plain,hello", host |-> None],
      [href |-> "mailto:user@example.com", host |-> None],
      [href |-> "unix:/run/foo.socket", host |-> None] }

\* what a Url's shortcut field is built with
Shortcuts == {"", "example"} \cup {o.host[1] : o \in {x \in Origins : x.host # None}}

host_str(origin) == origin.host
is_empty(str) == str = ""

OkBool(b) == [kind |-> "Ok", val |-> << b >>]

\* shorten: unwrap panics on None before anything is assigned; otherwise the
\* host is assigned to shortcut and the result depends on its emptiness.
shorten_once(u) ==
    IF host_str(u.origin) = None
    THEN [url |-> u, res |-> Panicked]
    ELSE LET sc == host_str(u.origin)[1]
         IN  [url |-> [u EXCEPT !.shortcut = sc],
              res |-> IF u.shortcut # sc THEN OkBool(TRUE) ELSE OkBool(FALSE)]
shorten_if_unset(u) ==
    IF host_str(u.origin) = None
    THEN [url |-> u, res |-> Panicked]
    ELSE LET sc == IF is_empty(u.shortcut) THEN host_str(u.origin)[1] ELSE u.shortcut
         IN  [url |-> [u EXCEPT !.shortcut = sc],
              res |-> IF ~ is_empty(sc) THEN OkBool(TRUE) ELSE Err("RelativeUrlWithoutBase")]
shorten(u) ==
    IF host_str(u.origin) = None
    THEN [url |-> u, res |-> Panicked]
    ELSE LET sc == host_str(u.origin)[1]
         IN  [url |-> [u EXCEPT !.shortcut = sc],
              res |-> IF ~ is_empty(sc) THEN OkBool(TRUE) ELSE Err("RelativeUrlWithoutBase")]

\* the store specifications leave one Url value alone
UrlIdle ==
    /\ url = [origin |-> [href |-> "https://example.com/", host |-> Some("example.com")],
              shortcut |-> ""]
    /\ ures = NoRet
    /\ ulast = "new"
    /\ upre = url
    /\ uprev = [last |-> "none", res |-> NoRet]
    /\ uarg = None
    /\ ushortened = FALSE

\* Url { origin: .., shortcut: .. }: both fields are given by the caller
UrlInit ==
    /\ \E o \in Origins, sc \in Shortcuts : url = [origin |-> o, shortcut |-> sc]
    /\ ures = NoRet
    /\ ulast = "new"
    /\ upre = url
    /\ uprev = [last |-> "none", res |-> NoRet]
    /\ uarg = None
    /\ ushortened = FALSE

New ==
    /\ \E o \in Origins, sc \in Shortcuts : url' = [origin |-> o, shortcut |-> sc]
    /\ ures' = NoRet
    /\ ulast' = "new"
    /\ upre' = url'
    /\ uprev' = [last |-> "none", res |-> NoRet]
    /\ uarg' = None
    /\ ushortened' = FALSE
    /\ UNCHANGED storeVars

\* myurl.shorten(), on a value whose owner has not unwound
Shorten ==
    /\ ures.kind # "panic"
    /\ LET r == shorten(url)
       IN  /\ url' = r.url
           /\ ures' = r.res
    /\ ulast' = "shorten"
    /\ upre' = url
    /\ uprev' = [last |-> ulast, res |-> ures]
    /\ uarg' = None
    /\ ushortened' = (ushortened \/ shorten(url).res.kind = "Ok")
    /\ UNCHANGED storeVars

\* ---- equality
\* url::Url's own ==, on the serializations
origin_eq(o1, o2) == o1.href = o2.href

\* #[derive(PartialEq)] on struct Url: every field, in turn
url_eq(a, b) == origin_eq(a.origin, b.origin) /\ a.shortcut = b.shortcut

\* impl PartialEq<Url> for UrlType
urltype_eq(o, u) == origin_eq(o, u.origin)

\* impl PartialEq<Url> for &str: against other.origin.to_string()
str_eq(str, u) == str = u.origin.href

Bool(b) == [kind |-> "Bool", val |-> << b >>]

\* the strings a Url is compared with: serializations, the input of the
\* tests (which the parser serializes with a trailing slash), shortcuts
Strs == {o.href : o \in Origins} \cup {"https://www.example.com"} \cup Shortcuts

\* a comparison leaves the Url as it is
Compared(kind, other, b) ==
    /\ ures.kind # "panic"
    /\ ures' = Bool(b)
    /\ ulast' = kind
    /\ uarg' = Some(other)
    /\ upre' = url
    /\ uprev' = [last |-> ulast, res |-> ures]
    /\ UNCHANGED << url, ushortened >>
    /\ UNCHANGED storeVars

\* myurl == other, other another Url
EqUrl ==
    \E o \in Origins, sc \in Shortcuts :
        LET other == [origin |-> o, shortcut |-> sc]
        IN  Compared("eq_url", other, url_eq(url, other))

\* expect == myurl, expect a url::Url
EqUrlType == \E o \in Origins : Compared("eq_urltype", o, urltype_eq(o, url))

\* "..." == myurl
EqStr == \E str \in Strs : Compared("eq_str", str, str_eq(str, url))

\* ---- impl fmt::Display for Url
\* panics on an empty shortcut, else writes the origin
fmt_unchecked(u) == [kind |-> "Ok", val |-> << u.origin.href >>]
fmt(u) ==
    IF is_empty(u.shortcut)
    THEN Panicked
    ELSE [kind |-> "Ok", val |-> << u.origin.href >>]

\* format!("{myurl}")
Display ==
    /\ ures.kind # "panic"
    /\ ures' = fmt(url)
    /\ ulast' = "display"
    /\ uarg' = None
    /\ upre' = url
    /\ uprev' = [last |-> ulast, res |-> ures]
    /\ UNCHANGED << url, ushortened >>
    /\ UNCHANGED storeVars

UrlNext ==
    \/ New
    \/ Shorten
    \/ EqUrl
    \/ EqUrlType
    \/ EqStr
    \/ Display

UrlSpecInit == StoreInit /\ UrlInit

UrlSpec == UrlSpecInit /\ [][UrlNext]_vars

Init == StoreInit /\ UrlIdle

Next ==
    \E t \in Threads :
        \/ Call(t)
        \/ Lock(t)
        \/ Get(t)
        \/ Create(t)
        \/ UpdateCheck(t)
        \/ UpdateInsert(t)
        \/ Delete(t)

Spec == Init /\ [][Next]_vars

\* ---- fair scheduling
\* the steps of a call that run with the lock held
Critical(t) == Get(t) \/ Create(t) \/ UpdateCheck(t) \/ UpdateInsert(t) \/ Delete(t)

\* A thread inside a critical section keeps running, and a thread blocked in
\* lock() gets the lock if it is free again and again.  No caller is obliged
\* to call.
Fairness == \A t \in Threads : WF_vars(Critical(t)) /\ SF_vars(Lock(t))

FairSpec == Init /\ [][Next]_vars /\ Fairness

SeqNext ==
    \/ SeqCall
    \/ MutateCopy
    \/ Lock(Main)
    \/ Get(Main)
    \/ Create(Main)
    \/ UpdateCheck(Main)
    \/ UpdateInsert(Main)
    \/ Delete(Main)

SeqSpec == Init /\ [][SeqNext]_vars

\* N threads, each spawned to make one create, the ids pairwise distinct.
CreateInit ==
    /\ links = EmptyMap
    /\ poisoned = FALSE
    /\ holder = 0
    /\ pc = [t \in Threads |-> "lock"]
    /\ \E f \in [Threads -> Link] :
          /\ \A t, u \in Threads : t # u => f[t].id # f[u].id
          /\ op = [t \in Threads |-> CreateOp(f[t])]
    /\ ret = [t \in Threads |-> NoRet]
    /\ pre = EmptyMap
    /\ hist = << >>
    /\ copy = [t \in Threads |-> NoCopy]
    /\ wlast = 0
    /\ UrlIdle

\* A thread whose create returned is joined; its call is logged.
Join(t) ==
    /\ pc[t] = "done" /\ op[t].kind = "create"
    /\ hist' = Append(hist, [op |-> op[t], ret |-> ret[t], pre |-> pre])
    /\ pc' = [pc EXCEPT ![t] = "idle"]
    /\ UNCHANGED << links, poisoned, holder, op, ret, pre >>
    /\ UNCHANGED << copy, wlast >>
    /\ UNCHANGED urlVars

\* After all the threads are joined, get is called for some id.
GetAfter ==
    /\ Len(hist) = NumThreads
    /\ pc[Main] \in {"idle", "done"}
    /\ \E i \in Ids : op' = [op EXCEPT ![Main] = GetOp(i)]
    /\ pc' = [pc EXCEPT ![Main] = "lock"]
    /\ ret' = [ret EXCEPT ![Main] = NoRet]
    /\ UNCHANGED << links, poisoned, holder, pre, hist >>
    /\ copy' = [copy EXCEPT ![Main] = NoCopy]
    /\ UNCHANGED wlast
    /\ UNCHANGED urlVars

CreateNext ==
    \/ \E t \in Threads : Lock(t)
    \/ \E t \in Threads : Create(t)
    \/ \E t \in Threads : Join(t)
    \/ GetAfter
    \/ Get(Main)

CreateSpec == CreateInit /\ [][CreateNext]_vars

\* ---- every thread writes the same id
\* the calls that write id k: create of a Link with that id, update of k
WritesOn(k) ==
    {CreateOp(l) : l \in {x \in Link : x.id = k}} \cup {UpdateOp(k, l) : l \in Link}

\* Before the threads start, the caller may create one record.
Seed ==
    /\ hist = << >>
    /\ \A t \in Threads : pc[t] = "idle"
    /\ \E l \in Link : op' = [op EXCEPT ![Main] = CreateOp(l)]
    /\ pc' = [pc EXCEPT ![Main] = "lock"]
    /\ UNCHANGED << links, poisoned, holder, ret, pre, hist, copy, wlast >>
    /\ UNCHANGED urlVars

\* Every thread is started with a write of one id k: some thread creates k
\* or k is present.  hist[1] logs what came before.
StartWriters ==
    /\ hist = << >>
    /\ \A t \in Threads : pc[t] \in {"idle", "done"}
    /\ \E k \in Ids : \E f \in [Threads -> WritesOn(k)] :
          /\ (\E t \in Threads : f[t].kind = "create") \/ contains_key(links, k)
          /\ op' = f
    /\ pc' = [t \in Threads |-> "lock"]
    /\ ret' = [t \in Threads |-> NoRet]
    /\ hist' = << [op |-> op[Main], ret |-> ret[Main], pre |-> links] >>
    /\ UNCHANGED << links, poisoned, holder, pre, copy, wlast >>
    /\ UNCHANGED urlVars

\* the writes of the threads, as log entries in thread order
WriterLog == [t \in 1..NumThreads |-> [op |-> op[t], ret |-> ret[t], pre |-> pre]]

\* After every thread's write returned, get is called for the id written;
\* hist[1 + t] logs the write of thread t.
GetWritten ==
    /\ Len(hist) = 1
    /\ \A t \in Threads : pc[t] = "done"
    /\ hist' = hist \o WriterLog
    /\ op' = [op EXCEPT ![Main] = GetOp(Addressed(op[Main]))]
    /\ pc' = [pc EXCEPT ![Main] = "lock"]
    /\ ret' = [ret EXCEPT ![Main] = NoRet]
    /\ UNCHANGED << links, poisoned, holder, pre, copy, wlast >>
    /\ UNCHANGED urlVars

WriteNext ==
    \/ Seed
    \/ StartWriters
    \/ \E t \in Threads : Lock(t)
    \/ \E t \in Threads : Create(t)
    \/ \E t \in Threads : UpdateCheck(t)
    \/ \E t \in Threads : UpdateInsert(t)
    \/ GetWritten
    \/ Get(Main)

WriteSpec == Init /\ [][WriteNext]_vars

\* Another holder of the Arc<Mutex<..>> takes the lock and panics while it
\* owns the guard: the guard's drop during unwinding poisons the mutex.  None
\* of the four methods can do this itself (nothing in their critical sections
\* panics), so the failing holder is the environment's.
HolderPanics ==
    /\ holder = 0
    /\ ~ poisoned
    /\ poisoned' = TRUE
    /\ UNCHANGED << links, holder, pc, op, ret, pre, hist >>
    /\ UNCHANGED << copy, wlast >>
    /\ UNCHANGED urlVars

PoisonNext ==
    \/ Call(Main)
    \/ Lock(Main)
    \/ Get(Main)
    \/ Create(Main)
    \/ UpdateCheck(Main)
    \/ UpdateInsert(Main)
    \/ Delete(Main)
    \/ HolderPanics

PoisonSpec == Init /\ [][PoisonNext]_vars

\* ============================================================== the claims
\* Under SeqSpec: Completed[i] is the i-th call of the sequential caller,
\* Completed[i].pre the map it was issued on, Completed[i].ret its result.
NCompleted == Len(Completed)
IsGetOf(c, i) == c.op.kind = "get" /\ c.op.id = i
NotFound == Err("Link not found")

\* C1: create(r) returns Ok(()) on every store state, and a get(r.id) issued
\* next returns a record equal to r.
C1_CreateThenGet ==
    \A i \in 1..NCompleted :
        Completed[i].op.kind = "create" =>
            /\ Completed[i].ret = Ok
            /\ (i < NCompleted /\ IsGetOf(Completed[i + 1], Completed[i].op.link[1].id))
                  => /\ Completed[i + 1].ret.kind = "Some"
                     /\ Completed[i + 1].ret.val = Some(Completed[i].op.link[1])

\* a create on a store that held another record under that id, then the get
C1_Witness ==
    \E i \in 1..NCompleted :
        /\ Completed[i].op.kind = "create"
        /\ i < NCompleted
        /\ IsGetOf(Completed[i + 1], Completed[i].op.link[1].id)
        /\ Completed[i].op.link[1].id \in DOMAIN Completed[i].pre
        /\ Completed[i].pre[Completed[i].op.link[1].id] # Completed[i].op.link[1]

\* C2: update(id, r) on an absent id returns NotFound and leaves the map
\* unchanged: get of every id gives what it gave before, get(id) gives none.
C2_UpdateAbsent ==
    (/\ pc[Main] = "done"
     /\ op[Main].kind = "update"
     /\ ~ contains_key(pre, op[Main].id))
       => /\ ret[Main] = NotFound
          /\ \A k \in Ids : get(links, k) = get(pre, k)
          /\ get(links, op[Main].id) = None

\* an update of an absent id on a store that holds another id
C2_Witness ==
    /\ pc[Main] = "done"
    /\ op[Main].kind = "update"
    /\ ~ contains_key(pre, op[Main].id)
    /\ DOMAIN pre # {}

\* C3: update(id, r) on a present id returns Ok(()) and replaces the record
\* wholesale: the map then holds r under id, and the next get(id) returns a
\* record equal to r in every field.
C3_UpdatePresent ==
    \A i \in 1..NCompleted :
        (Completed[i].op.kind = "update" /\ contains_key(Completed[i].pre, Completed[i].op.id))
          => /\ Completed[i].ret = Ok
             /\ (i < NCompleted /\ IsGetOf(Completed[i + 1], Completed[i].op.id))
                   => /\ Completed[i + 1].ret.kind = "Some"
                      /\ Completed[i + 1].ret.val = Some(Completed[i].op.link[1])
             /\ (i = NCompleted => get(links, Completed[i].op.id) = Some(Completed[i].op.link[1]))

\* an update that replaces a record differing from r in every field but id,
\* followed by the get
C3_Witness ==
    \E i \in 1..NCompleted :
        /\ Completed[i].op.kind = "update"
        /\ contains_key(Completed[i].pre, Completed[i].op.id)
        /\ Completed[i].pre[Completed[i].op.id].created_at # Completed[i].op.link[1].created_at
        /\ Completed[i].pre[Completed[i].op.id].origin # Completed[i].op.link[1].origin
        /\ i < NCompleted
        /\ IsGetOf(Completed[i + 1], Completed[i].op.id)

\* C4: delete(id) returns Ok(()) exactly when id was present and NotFound
\* exactly when it was absent; afterwards get(id) returns none, and a second
\* delete(id) right after a successful one returns NotFound.
C4_Delete ==
    \A i \in 1..NCompleted :
        Completed[i].op.kind = "delete" =>
            /\ (Completed[i].ret = Ok) <=> contains_key(Completed[i].pre, Completed[i].op.id)
            /\ (Completed[i].ret = NotFound) <=> ~ contains_key(Completed[i].pre, Completed[i].op.id)
            /\ (i < NCompleted /\ IsGetOf(Completed[i + 1], Completed[i].op.id))
                  => Completed[i + 1].ret.kind = "None"
            /\ (i = NCompleted => get(links, Completed[i].op.id) = None)
            /\ (i < NCompleted /\ Completed[i + 1].op = Completed[i].op)
                  => Completed[i + 1].ret = NotFound

\* a successful delete followed by the same delete
C4_Witness ==
    \E i \in 1..NCompleted :
        /\ Completed[i].op.kind = "delete"
        /\ Completed[i].ret = Ok
        /\ i < NCompleted
        /\ Completed[i + 1].op = Completed[i].op

\* C5: create is an upsert: create(r1) then create(r2) with r2.id = r1.id both
\* return Ok(()), and a following get of that id returns r2, not r1.
C5_CreateTwice ==
    \A i \in 1..NCompleted :
        (/\ i < NCompleted
         /\ Completed[i].op.kind = "create"
         /\ Completed[i + 1].op.kind = "create"
         /\ Completed[i + 1].op.link[1].id = Completed[i].op.link[1].id)
           => /\ Completed[i].ret = Ok
              /\ Completed[i + 1].ret = Ok
              /\ (i + 1 < NCompleted
                  /\ IsGetOf(Completed[i + 2], Completed[i].op.link[1].id))
                    => Completed[i + 2].ret = OptRet(Some(Completed[i + 1].op.link[1]))
              /\ (i + 1 = NCompleted =>
                    get(links, Completed[i].op.link[1].id) = Some(Completed[i + 1].op.link[1]))

\* two creates of one id with different records, then the get
C5_Witness ==
    \E i \in 1..NCompleted :
        /\ i + 1 < NCompleted
        /\ Completed[i].op.kind = "create"
        /\ Completed[i + 1].op.kind = "create"
        /\ Completed[i + 1].op.link[1].id = Completed[i].op.link[1].id
        /\ Completed[i + 1].op.link[1] # Completed[i].op.link[1]
        /\ IsGetOf(Completed[i + 2], Completed[i].op.link[1].id)

\* C6: N creates with N pairwise distinct ids from N threads, in any
\* interleaving, all return Ok(()), and once all have completed get of each of
\* the N ids returns the record created under it.
C6_ConcurrentCreates ==
    /\ \A t \in Threads : (pc[t] = "done" /\ op[t].kind = "create") => ret[t] = Ok
    /\ \A i \in 1..Len(hist) : hist[i].ret = Ok
    /\ Len(hist) = NumThreads =>
          /\ \A i \in 1..Len(hist) :
                get(links, hist[i].op.link[1].id) = Some(hist[i].op.link[1])
          /\ (pc[Main] = "done" /\ op[Main].kind = "get") =>
                \A i \in 1..Len(hist) :
                    hist[i].op.link[1].id = op[Main].id =>
                        ret[Main] = OptRet(Some(hist[i].op.link[1]))

\* all N creates completed and a get of one of the ids returned
C6_Witness ==
    /\ Len(hist) = NumThreads
    /\ pc[Main] = "done"
    /\ op[Main].kind = "get"
    /\ \E i \in 1..Len(hist) : hist[i].op.link[1].id = op[Main].id

\* C7: every operation is one critical section, so concurrent operations
\* behave as some serial order of them; in particular an update(id, r) that
\* runs concurrently with a delete(id) never returns Ok while storing r under
\* an id the delete had already removed: whenever update writes and returns
\* Ok, id is still present in the map.
C7_UpdateWritesPresentId ==
    [][\A t \in Threads :
          (pc[t] = "held2" /\ pc'[t] = "done" /\ ret'[t] = Ok)
             => contains_key(links, op[t].id)]_vars

\* C8: once the lock is poisoned it stays poisoned, the map is never modified
\* again, and no call returns a normal result any more (a get does not
\* return none): every call that reaches lock() unwinds.
C8_PoisonedIsFatal ==
    [][poisoned =>
          /\ poisoned'
          /\ links' = links
          /\ \A t \in Threads :
                /\ pc'[t] = "done" => (pc[t] = "done" /\ ret'[t] = ret[t])
                /\ pc[t] = "lock" => pc'[t] \in {"lock", "panicked"}
                /\ pc[t] = "lock2" => pc'[t] \in {"lock2", "panicked"}]_vars

\* a get of a stored id, called after the poisoning, unwound
C8_Witness ==
    /\ poisoned
    /\ pc[Main] = "panicked"
    /\ op[Main].kind = "get"
    /\ contains_key(links, op[Main].id)

\* C9: for a Url whose origin has host h, whatever its shortcut was,
\* shorten() returns Ok(true) and shortcut is h afterwards.
C9_ShortenHost ==
    (ulast = "shorten" /\ host_str(upre.origin) # None)
      => /\ ures = OkBool(TRUE)
         /\ url.shortcut = host_str(upre.origin)[1]
         /\ url.origin = upre.origin

\* shorten on a Url with a host whose shortcut held something else
C9_Witness ==
    /\ ulast = "shorten"
    /\ host_str(upre.origin) # None
    /\ upre.shortcut # ""
    /\ upre.shortcut # host_str(upre.origin)[1]

\* C10: for a Url whose origin has no host and whose shortcut is empty,
\* shorten() returns an error value (it does not abort) and shortcut is still
\* empty.
C10_ShortenHostless ==
    (ulast = "shorten" /\ host_str(upre.origin) = None /\ upre.shortcut = "")
      => /\ ures.kind = "Err"
         /\ url.shortcut = ""

\* C11: equality of Urls is on origin alone: two Urls are equal exactly when
\* their origins are equal, whatever their shortcuts; a Url equals a url::Url
\* or a string exactly when that equals its origin.
C11_EqualityOnOrigin ==
    /\ ulast = "eq_url" => (ures = Bool(TRUE) <=> origin_eq(url.origin, uarg[1].origin))
    /\ ulast = "eq_urltype" => (ures = Bool(TRUE) <=> origin_eq(uarg[1], url.origin))
    /\ ulast = "eq_str" => (ures = Bool(TRUE) <=> uarg[1] = url.origin.href)

C15_ShortenIdempotent ==
    /\ (ulast = "shorten" /\ uprev.last = "shorten" /\ host_str(upre.origin) # None)
          => /\ ures = uprev.res
             /\ url.shortcut = upre.shortcut
    /\ ulast = "shorten" => url.origin = upre.origin

\* shorten was called twice in a row on a Url with a host
C15_Witness ==
    /\ ulast = "shorten"
    /\ uprev.last = "shorten"
    /\ host_str(upre.origin) # None
    /\ ures = OkBool(TRUE)

\* C13: after any sequence of create, update and delete, every record in the
\* map has an id field equal to the key it is stored under, so no two stored
\* records carry the same id and get(k) returns a record whose id is k.
C13_IdIsKey ==
    /\ \A k \in DOMAIN links : links[k].id = k
    /\ \A k, j \in DOMAIN links : k # j => links[k].id # links[j].id
    /\ \A k \in Ids : get(links, k) # None => get(links, k)[1].id = k

\* C14: get never fails and never changes the store: it returns none exactly
\* when id is absent, otherwise a copy equal to the stored record; the map is
\* the same before and after the call; and whatever the caller does with the
\* copy, the map stays as it was and a get(id) repeated right after returns
\* the same.
C14_GetIsPure ==
    /\ \A i \in 1..NCompleted :
          Completed[i].op.kind = "get" =>
              /\ Completed[i].ret.kind \in {"Some", "None"}
              /\ Completed[i].ret.kind = "None"
                    <=> ~ contains_key(Completed[i].pre, Completed[i].op.id)
              /\ Completed[i].ret.val = map_get(Completed[i].pre, Completed[i].op.id)
              /\ (i < NCompleted /\ Completed[i + 1].op = Completed[i].op)
                    => /\ Completed[i + 1].ret = Completed[i].ret
                       /\ Completed[i + 1].pre = Completed[i].pre
    /\ (pc[Main] = "done" /\ op[Main].kind = "get") => links = pre

\* a get returned a copy of a stored record, and the caller changed its copy
C14_Witness ==
    /\ pc[Main] = "done"
    /\ op[Main].kind = "get"
    /\ ret[Main].kind = "Some"
    /\ copy[Main].val # ret[Main].val

\* C18: a create(r), update(id, r) or delete(id) executed alone changes at
\* most the entry of the id it addresses (r.id for create); the entry of every
\* other id is as before, and update leaves the set of ids as it was.
C18_Frame ==
    (pc[Main] = "done" /\ op[Main].kind \in {"create", "update", "delete"})
      => /\ \A k \in Ids \ {Addressed(op[Main])} : map_get(links, k) = map_get(pre, k)
         /\ op[Main].kind = "update" => DOMAIN links = DOMAIN pre

\* an update that replaced a record in a map holding another id as well
C18_Witness ==
    /\ pc[Main] = "done"
    /\ op[Main].kind = "update"
    /\ ret[Main] = Ok
    /\ links # pre
    /\ DOMAIN pre # {op[Main].id}

\* C16: when the threads concurrently write one id (creates and updates,
\* where some thread creates the id or the id is present), every create
\* returns Ok(()), every update returns Ok(()) if the id was present at the
\* start and Ok(()) or NotFound otherwise, and once all have returned the map
\* holds, and a get(id) returns, the record of the thread that took the lock
\* for its insert last, not an earlier writer's.
WriteReturned(o, r, before) ==
    IF o.kind = "create" \/ contains_key(before, o.id) THEN r = Ok ELSE r \in {Ok, NotFound}
C16_LastWriterWins ==
    /\ (Len(hist) = 1 /\ \A t \in Threads : pc[t] = "done")
          => /\ \A t \in Threads : WriteReturned(op[t], ret[t], hist[1].pre)
             /\ wlast \in Threads
             /\ ret[wlast] = Ok
             /\ get(links, Addressed(op[Main])) = Some(op[wlast].link[1])
    /\ Len(hist) = 1 + NumThreads
          => /\ \A t \in Threads : WriteReturned(hist[1 + t].op, hist[1 + t].ret, hist[1].pre)
             /\ wlast \in Threads
             /\ hist[1 + wlast].ret = Ok
             /\ pc[Main] = "done" => ret[Main] = OptRet(Some(hist[1 + wlast].op.link[1]))

\* a create and an update of one id with different records, the create
\* taking the lock last, and the get
C16_Witness ==
    /\ Len(hist) = 1 + NumThreads
    /\ pc[Main] = "done"
    /\ \E t, u \in Threads :
          /\ hist[1 + t].op.kind = "create"
          /\ hist[1 + u].op.kind = "update"
          /\ hist[1 + t].op.link[1] # hist[1 + u].op.link[1]
          /\ wlast = t

\* C17: no thread blocked in lock() is the holder of the lock, no thread
\* that is idle or has returned (Ok or NotFound) is the holder, and with an
\* unpoisoned lock and fair scheduling every call in progress returns.
InProgress(t) == pc[t] \notin {"idle", "done", "panicked"}
====
